---- MODULE Spec2Model ----
(***************************************************************************)
(* Model of the box-pushing game: the tile model (map.rs), the movement    *)
(* and button/door algorithms of MapData, and the level state machine of   *)
(* GameContext (game.rs).  The operations of GameContext are the actions;  *)
(* the level list is an input of the session.                              *)
(***************************************************************************)
EXTENDS Integers, Sequences, FiniteSets, TLC

VARIABLES player, map_data, map_list, level, panic, op, prev, events

vars == <<player, map_data, map_list, level, panic, op, prev, events>>

-----------------------------------------------------------------------------
(* Option<T>: None is the empty sequence, Some(v) the one-element sequence. *)

None == <<>>

Some(v) == <<v>>

is_none(o) == o = <<>>

unwrap(o) == o[1]

(* u32, the type of GameContext::level: a value is held as its two 16-bit   *)
(* halves, hi * 2^16 + lo, so that the full 32-bit width is kept.           *)

Half == 65536

u32(n) == [hi |-> n \div Half, lo |-> n % Half]

U32Max == [hi |-> Half - 1, lo |-> Half - 1]

\* wrapping_add(1) and wrapping_sub(1)
u32_add1(v) ==
    IF v.lo < Half - 1 THEN [v EXCEPT !.lo = @ + 1]
    ELSE [hi |-> (v.hi + 1) % Half, lo |-> 0]

u32_sub1(v) ==
    IF v.lo > 0 THEN [v EXCEPT !.lo = @ - 1]
    ELSE [hi |-> (v.hi - 1) % Half, lo |-> Half - 1]

\* Vec::get(v as usize): the element at a 0-based index, None out of range
get(list, v) ==
    IF v.hi <= Len(list) \div Half /\ v.hi * Half + v.lo < Len(list)
    THEN Some(list[v.hi * Half + v.lo + 1])
    ELSE None

-----------------------------------------------------------------------------
(* enum Direction and its unit vectors.                                     *)

Direction == {"Up", "Right", "Down", "Left"}

get_vec2_move(d) ==
    CASE d = "Up" -> <<-1, 0>>
      [] d = "Down" -> <<1, 0>>
      [] d = "Left" -> <<0, -1>>
      [] d = "Right" -> <<0, 1>>

-----------------------------------------------------------------------------
(* enum TileType.                                                           *)

Empty == [kind |-> "Empty"]

Wall1 == [kind |-> "Wall1"]

PushBox == [kind |-> "PushBox"]

Button(id) == [kind |-> "Button", id |-> id]

Door(id, open) == [kind |-> "Door", id |-> id, open |-> open]

WinPad == [kind |-> "WinPad"]

\* is_solid without its Door arm
is_solid_walls_only(tt) == tt.kind = "Wall1"

is_solid(tt) ==
    \/ tt.kind = "Wall1"
    \/ (tt.kind = "Door" /\ tt.open = FALSE)

\* is_pushable with a Button arm besides the PushBox arm
is_pushable_buttons(tt) == tt.kind = "PushBox" \/ tt.kind = "Button"

is_pushable(tt) == tt.kind = "PushBox"

\* stood_on_event without the Button arm
stood_on_event_no_button(tt) ==
    CASE tt.kind = "WinPad" -> "Win"
      [] OTHER -> "Nothing"

stood_on_event(tt) ==
    CASE tt.kind = "WinPad" -> "Win"
      [] tt.kind = "Button" -> "PressButton"
      [] OTHER -> "Nothing"

-----------------------------------------------------------------------------
(* struct Tile.                                                             *)

Tile(y, x, tile_type) == [y |-> y, x |-> x, tile_type |-> tile_type]

new_wall(y, x, tile_type, direction, len) ==
    LET dv == get_vec2_move(direction)
    IN  [i \in 1..len |-> Tile(y + (i - 1) * dv[1], x + (i - 1) * dv[2], tile_type)]

\* move_tile with the two components of the vector exchanged
move_tile_swapped(t, direction) ==
    LET change == get_vec2_move(direction)
    IN  [t EXCEPT !.y = @ + change[2], !.x = @ + change[1]]

move_tile(t, direction) ==
    LET change == get_vec2_move(direction)
    IN  [t EXCEPT !.y = @ + change[1], !.x = @ + change[2]]

(* struct Player.                                                           *)

move_pos(p, direction) ==
    LET change == get_vec2_move(direction)
    IN  [p EXCEPT !.y = @ + change[1], !.x = @ + change[2]]

-----------------------------------------------------------------------------
(* struct MapData: spatial queries.                                         *)

MapData(tile_map, player_spawn, flavor_text) ==
    [tile_map |-> tile_map, player_spawn |-> player_spawn, flavor_text |-> flavor_text]

RECURSIVE concat(_)
concat(vs) == IF vs = <<>> THEN <<>> ELSE Head(vs) \o concat(Tail(vs))

\* Vec<&mut Tile>: the tiles at (y, x), in tile_map order, each named by its
\* index in tile_map
tiles_at(m, y, x) ==
    SelectSeq([i \in 1..Len(m.tile_map) |-> i],
              LAMBDA i : m.tile_map[i].y = y /\ m.tile_map[i].x = x)

\* Vec<&Tile>: the same tiles, by value
immut_tiles_at(m, y, x) ==
    SelectSeq(m.tile_map, LAMBDA t : t.y = y /\ t.x = x)

\* the count without the is_pushable disjunct
num_solid_tiles_at(m, y, x) ==
    Cardinality({i \in 1..Len(m.tile_map) :
        /\ m.tile_map[i].y = y
        /\ m.tile_map[i].x = x
        /\ is_solid(m.tile_map[i].tile_type)})

\* the count of the pushable tiles only
num_pushable_tiles_at(m, y, x) ==
    Cardinality({i \in 1..Len(m.tile_map) :
        /\ m.tile_map[i].y = y
        /\ m.tile_map[i].x = x
        /\ is_pushable(m.tile_map[i].tile_type)})

num_solid_or_pushable_tiles_at(m, y, x) ==
    Cardinality({i \in 1..Len(m.tile_map) :
        /\ m.tile_map[i].y = y
        /\ m.tile_map[i].x = x
        /\ (is_solid(m.tile_map[i].tile_type) \/ is_pushable(m.tile_map[i].tile_type))})

-----------------------------------------------------------------------------
(* MapData::player_move.  The loop over tiles_at_new_spot (the tiles at the *)
(* target cell, collected before the loop) ends in one of three ways: a     *)
(* solid tile returns from the function, a box with something behind it     *)
(* clears can_move and breaks, or the tiles run out.                        *)

RECURSIVE move_loop(_, _, _, _, _)
move_loop(tm, idxs, k, tiles_past_tile, direction) ==
    IF k > Len(idxs)
    THEN [tile_map |-> tm, can_move |-> TRUE]
    ELSE LET i == idxs[k]
         IN  IF is_solid(tm[i].tile_type)
             THEN [tile_map |-> tm, can_move |-> FALSE]
             ELSE IF is_pushable(tm[i].tile_type)
                  THEN IF tiles_past_tile = 0
                       THEN move_loop([tm EXCEPT ![i] = move_tile(@, direction)],
                                      idxs, k + 1, tiles_past_tile, direction)
                       ELSE [tile_map |-> tm, can_move |-> FALSE]
                  ELSE move_loop(tm, idxs, k + 1, tiles_past_tile, direction)

\* the result is the pair of the two &mut arguments after the call
player_move(m, p, direction) ==
    LET change == get_vec2_move(direction)
        new_y == p.y + change[1]
        new_x == p.x + change[2]
        tiles_past_tile ==
            num_solid_or_pushable_tiles_at(m, new_y + change[1], new_x + change[2])
        tiles_at_new_spot == tiles_at(m, new_y, new_x)
        r == move_loop(m.tile_map, tiles_at_new_spot, 1, tiles_past_tile, direction)
    IN  [map_data |-> [m EXCEPT !.tile_map = r.tile_map],
         player |-> IF r.can_move THEN move_pos(p, direction) ELSE p]

-----------------------------------------------------------------------------
(* MapData::update_button_status.                                           *)

\* HashMap::insert
insert(h, id, v) == [i \in DOMAIN h \cup {id} |-> IF i = id THEN v ELSE h[i]]

\* HashMap::get(..).unwrap_or(&true)
get_or_true(h, id) == IF id \in DOMAIN h THEN h[id] ELSE TRUE

\* HashMap::get(..).unwrap_or(&false)
get_or_false(h, id) == IF id \in DOMAIN h THEN h[id] ELSE FALSE

\* the inner loop over push_boxes
touched_by_box(push_boxes, button) ==
    \E j \in 1..Len(push_boxes) :
        /\ push_boxes[j].y = button.y
        /\ push_boxes[j].x = button.x

RECURSIVE button_loop_any(_, _, _, _, _)
\* the loop with the roles of true and false exchanged: an id starts
\* unsatisfied and one covered button satisfies it
button_loop_any(buttons, push_boxes, p, k, ids_satiated) ==
    IF k > Len(buttons) THEN ids_satiated
    ELSE LET button == buttons[k]
             id == button.tile_type.id
             h1 == IF id \notin DOMAIN ids_satiated
                   THEN insert(ids_satiated, id, FALSE)
                   ELSE ids_satiated
             h2 == IF (p.y # button.y \/ p.x # button.x)
                        /\ ~touched_by_box(push_boxes, button)
                   THEN h1
                   ELSE insert(h1, id, TRUE)
         IN  button_loop_any(buttons, push_boxes, p, k + 1, h2)

RECURSIVE button_loop(_, _, _, _, _)
\* the loop over buttons, from its k-th element on
button_loop(buttons, push_boxes, p, k, ids_satiated) ==
    IF k > Len(buttons) THEN ids_satiated
    ELSE LET button == buttons[k]
             id == button.tile_type.id
             h1 == IF id \notin DOMAIN ids_satiated
                   THEN insert(ids_satiated, id, TRUE)
                   ELSE ids_satiated
             h2 == IF (p.y # button.y \/ p.x # button.x)
                        /\ ~touched_by_box(push_boxes, button)
                   THEN insert(h1, id, FALSE)
                   ELSE h1
         IN  button_loop(buttons, push_boxes, p, k + 1, h2)

\* the loop over the Door tiles with the flag assigned on both branches
door_loop_recomputed(tm, ids_satiated) ==
    [i \in 1..Len(tm) |->
        IF tm[i].tile_type.kind # "Door" THEN tm[i]
        ELSE LET id == tm[i].tile_type.id
             IN  IF is_none(id) THEN tm[i]
                 ELSE [tm[i] EXCEPT !.tile_type =
                           Door(id, get_or_false(ids_satiated, unwrap(id)))]]

\* the loop over the Door tiles, with a door of no id opened as well
door_loop_opens_unlinked(tm, ids_satiated) ==
    [i \in 1..Len(tm) |->
        IF tm[i].tile_type.kind # "Door" THEN tm[i]
        ELSE LET id == tm[i].tile_type.id
             IN  IF is_none(id) \/ get_or_false(ids_satiated, unwrap(id))
                 THEN [tm[i] EXCEPT !.tile_type = Door(id, TRUE)]
                 ELSE tm[i]]

\* the loop over the Door tiles
door_loop(tm, ids_satiated) ==
    [i \in 1..Len(tm) |->
        IF tm[i].tile_type.kind # "Door" THEN tm[i]
        ELSE LET id == tm[i].tile_type.id
             IN  IF is_none(id) THEN tm[i]
                 ELSE IF get_or_false(ids_satiated, unwrap(id))
                      THEN [tm[i] EXCEPT !.tile_type = Door(id, TRUE)]
                      ELSE tm[i]]

update_button_status(m, p) ==
    LET buttons == SelectSeq(m.tile_map, LAMBDA t : t.tile_type.kind = "Button")
        push_boxes == SelectSeq(m.tile_map, LAMBDA t : t.tile_type = PushBox)
        ids_satiated == button_loop(buttons, push_boxes, p, 1, <<>>)
    IN  [m EXCEPT !.tile_map = door_loop(m.tile_map, ids_satiated)]

-----------------------------------------------------------------------------
(* get_maps: the three shipped levels.                                      *)

get_maps ==
    << \* Level 1
       MapData(
           concat(<< new_wall(0, 0, Wall1, "Right", 30),
                     new_wall(0, 0, Wall1, "Down", 7),
                     new_wall(6, 0, Wall1, "Right", 23),
                     new_wall(6, 23, Wall1, "Down", 10),
                     new_wall(16, 23, Wall1, "Right", 7),
                     new_wall(16, 29, Wall1, "Up", 17),
                     <<Tile(13, 26, WinPad)>> >>),
           <<3, 3>>,
           Some("Welcome")),
       \* Level 2
       MapData(
           concat(<< new_wall(15, 5, Wall1, "Right", 30),
                     new_wall(14, 34, Wall1, "Up", 15),
                     new_wall(0, 34, Wall1, "Left", 35),
                     new_wall(0, 0, Wall1, "Down", 10),
                     new_wall(9, 0, Wall1, "Right", 31),
                     new_wall(9, 32, Wall1, "Right", 2),
                     new_wall(14, 5, Wall1, "Up", 5),
                     new_wall(14, 17, Wall1, "Up", 2),
                     <<Tile(12, 17, Door(Some(0), FALSE))>>,
                     new_wall(11, 17, Wall1, "Up", 2),
                     <<Tile(10, 11, Button(0))>>,
                     <<Tile(7, 2, WinPad)>>,
                     <<Tile(9, 31, Door(Some(1), FALSE))>>,
                     <<Tile(14, 33, Button(1))>> >>),
           <<14, 6>>,
           Some("Buttons? What do they do?")),
       \* Level 3
       MapData(
           concat(<< new_wall(0, 0, Wall1, "Right", 40),
                     new_wall(0, 0, Wall1, "Down", 6),
                     new_wall(6, 0, Wall1, "Right", 40),
                     new_wall(0, 39, Wall1, "Down", 6),
                     new_wall(0, 28, Wall1, "Down", 3),
                     new_wall(6, 28, Wall1, "Up", 3),
                     <<Tile(3, 28, Door(Some(0), FALSE))>>,
                     <<Tile(2, 24, Button(0))>>,
                     <<Tile(4, 24, Button(0))>>,
                     <<Tile(3, 10, PushBox)>>,
                     <<Tile(3, 35, WinPad)>> >>),
           <<3, 3>>,
           Some("You must activate both buttons at once.")) >>

-----------------------------------------------------------------------------
(* struct GameContext.  A context value c holds the fields the operations   *)
(* change, and c.panic names the panic that ended the call ("none" while    *)
(* the program runs).  load_current_level clones the template it loads (a   *)
(* Vec::get().cloned()), so the operations write to c.map_data only.        *)

Ctx ==
    [player |-> player, map_data |-> map_data, map_list |-> map_list,
     level |-> level, panic |-> panic]

\* load_current_level returning where its todo! stands
load_current_level_ignore(c) ==
    LET map == get(c.map_list, c.level)
    IN  IF is_none(map)
        THEN c
        ELSE LET spawn == unwrap(map).player_spawn
             IN  [c EXCEPT !.map_data = map,
                           !.player.y = spawn[1],
                           !.player.x = spawn[2]]

\* load_current_level without the two assignments to the player
load_current_level_keep_player(c) ==
    LET map == get(c.map_list, c.level)
    IN  IF is_none(map)
        THEN [c EXCEPT !.panic = "todo"]
        ELSE [c EXCEPT !.map_data = map]

\* load_current_level with the first map as the back-up map of its todo!
load_current_level_backup(c) ==
    LET found == get(c.map_list, c.level)
        map == IF is_none(found) THEN Some(c.map_list[1]) ELSE found
        spawn == unwrap(map).player_spawn
    IN  [c EXCEPT !.map_data = map,
                  !.player.y = spawn[1],
                  !.player.x = spawn[2]]

load_current_level(c) ==
    LET map == get(c.map_list, c.level)
    IN  IF is_none(map)
        THEN [c EXCEPT !.panic = "todo"]
        ELSE LET spawn == unwrap(map).player_spawn
             IN  [c EXCEPT !.map_data = map,
                           !.player.y = spawn[1],
                           !.player.x = spawn[2]]

\* increment_level without its call of load_current_level
increment_level_no_load(c, overflow_checks) ==
    IF c.level = U32Max /\ overflow_checks
    THEN [c EXCEPT !.panic = "overflow"]
    ELSE [c EXCEPT !.level = u32_add1(c.level)]

\* overflow_checks: whether the build panics on integer overflow (the debug
\* profile) or wraps (the release profile)
increment_level(c, overflow_checks) ==
    IF c.level = U32Max /\ overflow_checks
    THEN [c EXCEPT !.panic = "overflow"]
    ELSE load_current_level([c EXCEPT !.level = u32_add1(c.level)])

decrement_level(c, overflow_checks) ==
    IF c.level = u32(0) /\ overflow_checks
    THEN [c EXCEPT !.panic = "overflow"]
    ELSE load_current_level([c EXCEPT !.level = u32_sub1(c.level)])

\* player_movement on the entry of map_list itself instead of on a clone
player_movement_aliased(c, direction) ==
    IF is_none(c.map_data)
    THEN [c EXCEPT !.panic = "unwrap"]
    ELSE LET r == player_move(unwrap(c.map_data), c.player, direction)
         IN  [c EXCEPT !.map_data = Some(r.map_data), !.player = r.player,
                       !.map_list = [i \in 1..Len(c.map_list) |->
                                        IF i = c.level.lo + 1 /\ c.level.hi = 0
                                        THEN r.map_data ELSE c.map_list[i]]]

player_movement(c, direction) ==
    IF is_none(c.map_data)
    THEN [c EXCEPT !.panic = "unwrap"]
    ELSE LET r == player_move(unwrap(c.map_data), c.player, direction)
         IN  [c EXCEPT !.map_data = Some(r.map_data), !.player = r.player]

\* defined where map_data is Some; the callers model the unwrap
collect_events(c) ==
    LET m == unwrap(c.map_data)
        ts == tiles_at(m, c.player.y, c.player.x)
    IN  [k \in 1..Len(ts) |-> stood_on_event(m.tile_map[ts[k]].tile_type)]

RECURSIVE event_loop(_, _, _, _)
\* the loop over the collected events; a panic inside it ends the call
event_loop(c, evs, k, overflow_checks) ==
    IF k > Len(evs) \/ c.panic # "none" THEN c
    ELSE IF evs[k] = "Win"
         THEN event_loop(increment_level(c, overflow_checks), evs, k + 1, overflow_checks)
         ELSE event_loop(c, evs, k + 1, overflow_checks)

update_all(c, overflow_checks) ==
    IF is_none(c.map_data)
    THEN [c EXCEPT !.panic = "unwrap"]
    ELSE LET c1 == event_loop(c, collect_events(c), 1, overflow_checks)
         IN  IF c1.panic # "none" THEN c1
             ELSE [c1 EXCEPT !.map_data =
                       Some(update_button_status(unwrap(c1.map_data), c1.player))]

-----------------------------------------------------------------------------
(* The session.  Init is the GameContext literal of main with map_list an   *)
(* input, one of MapLists; every pub method of GameContext is an action, in *)
(* any order, enabled while no panic has ended the run.                     *)
(* op names the last operation and prev holds the context it was called on; *)
(* events is what the last call returned: the Vec<Event> of collect_events, *)
(* empty after the operations that return nothing.                          *)

Call(name, dir) == [name |-> name, dir |-> dir]

Becomes(c, call) ==
    /\ player' = c.player
    /\ map_data' = c.map_data
    /\ level' = c.level
    /\ panic' = c.panic
    /\ op' = call
    /\ prev' = Ctx
    /\ map_list' = c.map_list

-----------------------------------------------------------------------------
(* Level lists given to a GameContext as its map_list.  They are inputs:    *)
(* small levels of their own, not the levels of get_maps (those are the     *)
(* list of InitShipped and InitWin).  Every level is a room closed by Wall1 *)
(* tiles, built as get_maps builds the frame of level 3, so the walls bound *)
(* the positions the player and the boxes reach.                            *)

\* the length of the corridor of a generated level
ArenaLen == 3

\* the most tiles a generated level holds besides its walls
MaxTiles == 2

\* the walls around the cells (1..h, 1..w)
Room(h, w) ==
    concat(<< new_wall(0, 0, Wall1, "Right", w + 2),
              new_wall(0, 0, Wall1, "Down", h + 1),
              new_wall(h + 1, 0, Wall1, "Right", w + 2),
              new_wall(0, w + 1, Wall1, "Down", h + 1) >>)

\* the tile types of the generated levels: a pushable one, a solid one that
\* an update can open, and the two that raise events
TileTypes == { PushBox, Button(0), WinPad, Door(Some(0), FALSE) }

\* the tiles of the corridor (1, 1..ArenaLen)
TilePool == { Tile(1, x, tt) : x \in 1..ArenaLen, tt \in TileTypes }

TileSeqs == UNION { [1..n -> TilePool] : n \in 0..MaxTiles }

\* a corridor with the player at its left end and any tiles of the pool, in
\* any order and with any number of them sharing a cell
GeneratedLevels ==
    { MapData(Room(1, ArenaLen) \o ts, <<1, 1>>, None) : ts \in TileSeqs }

\* the level after a generated one: a button under the spawn and its door
SecondLevel ==
    MapData(Room(1, ArenaLen)
                \o << Tile(1, 1, Button(0)), Tile(1, ArenaLen, Door(Some(0), FALSE)) >>,
            <<1, 1>>, Some("second"))

HasWinPad(m) == \E i \in 1..Len(m.tile_map) : m.tile_map[i].tile_type = WinPad

\* a generated level that can be won is followed by SecondLevel
GeneratedLists ==
    { IF HasWinPad(g) THEN <<g, SecondLevel>> ELSE <<g>> : g \in GeneratedLevels }

\* a list shaped as get_maps is, at the scale of the arena: a room with a
\* goal, a vertical corridor with a button and linked and unlinked doors, and
\* the layout of level 3
MiniLevel1 ==
    MapData(Room(1, ArenaLen) \o <<Tile(1, ArenaLen, WinPad)>>, <<1, 1>>, Some("Welcome"))

MiniLevel2 ==
    MapData(Room(ArenaLen, 1)
                \o << Tile(1, 1, Door(None, TRUE)),
                      Tile(2, 1, Empty),
                      Tile(2, 1, Button(0)),
                      Tile(2, 1, Door(Some(1), TRUE)),
                      Tile(ArenaLen, 1, Door(Some(0), FALSE)),
                      Tile(ArenaLen, 1, WinPad),
                      Tile(ArenaLen + 1, 1, Door(None, FALSE)),
                      Tile(ArenaLen + 1, 1, Door(Some(1), FALSE)) >>,
            <<1, 1>>, Some("Buttons? What do they do?"))

\* the room of level 3: a wall with a door in it, two Button(0) before the
\* wall in the rows above and below the door's, a box and the spawn in the
\* door's row, the goal behind the door; a Button(1) and its door besides
MiniLevel3 ==
    MapData(Room(3, ArenaLen + 3)
                \o << Tile(1, ArenaLen + 2, Wall1),
                      Tile(3, ArenaLen + 2, Wall1),
                      Tile(2, ArenaLen + 2, Door(Some(0), FALSE)),
                      Tile(1, ArenaLen + 1, Button(0)),
                      Tile(3, ArenaLen + 1, Button(0)),
                      Tile(2, 2, PushBox),
                      Tile(2, ArenaLen + 3, WinPad),
                      Tile(1, 1, Button(1)),
                      Tile(3, 1, Door(Some(1), FALSE)) >>,
            <<2, 1>>, Some("You must activate both buttons at once."))

\* two goal pads under the spawn, with two levels after it
DoubleWinLevel ==
    MapData(Room(1, ArenaLen) \o << Tile(1, 1, WinPad), Tile(1, 1, WinPad) >>,
            <<1, 1>>, None)

\* boxes sharing a cell with a wall, listed before and after it
BoxInWallLevel ==
    MapData(Room(1, ArenaLen)
                \o << Tile(1, 2, PushBox), Tile(1, 2, Wall1), Tile(1, 2, PushBox) >>,
            <<1, 1>>, None)

CuratedLists ==
    { <<MiniLevel1, MiniLevel2, MiniLevel3>>,
      <<DoubleWinLevel, SecondLevel, MiniLevel1>>,
      <<BoxInWallLevel>> }

MapLists == GeneratedLists \cup CuratedLists

Init ==
    /\ player = [y |-> 5, x |-> 5, glyph |-> "X"]
    /\ map_data = None
    /\ map_list \in MapLists
    /\ level = u32(0)
    /\ panic = "none"
    /\ op = Call("new", "None")
    /\ prev = [player |-> player, map_data |-> map_data, map_list |-> map_list,
               level |-> level, panic |-> panic]
    /\ events = <<>>

LoadCurrentLevel ==
    /\ panic = "none"
    /\ Becomes(load_current_level(Ctx), Call("load_current_level", "None"))
    /\ events' = <<>>

IncrementLevel ==
    /\ panic = "none"
    /\ \E overflow_checks \in BOOLEAN :
           Becomes(increment_level(Ctx, overflow_checks), Call("increment_level", "None"))
    /\ events' = <<>>

DecrementLevel ==
    /\ panic = "none"
    /\ \E overflow_checks \in BOOLEAN :
           Becomes(decrement_level(Ctx, overflow_checks), Call("decrement_level", "None"))
    /\ events' = <<>>

PlayerMovement ==
    /\ panic = "none"
    /\ \E direction \in Direction :
           Becomes(player_movement(Ctx, direction), Call("player_movement", direction))
    /\ events' = <<>>

CollectEvents ==
    /\ panic = "none"
    /\ IF is_none(map_data)
       THEN /\ Becomes([Ctx EXCEPT !.panic = "unwrap"], Call("collect_events", "None"))
            /\ events' = <<>>
       ELSE /\ Becomes(Ctx, Call("collect_events", "None"))
            /\ events' = collect_events(Ctx)

UpdateAll ==
    /\ panic = "none"
    /\ \E overflow_checks \in BOOLEAN :
           Becomes(update_all(Ctx, overflow_checks), Call("update_all", "None"))
    /\ events' = <<>>

Next ==
    \/ LoadCurrentLevel
    \/ IncrementLevel
    \/ DecrementLevel
    \/ PlayerMovement
    \/ CollectEvents
    \/ UpdateAll

Spec == Init /\ [][Next]_vars

-----------------------------------------------------------------------------
(* The vocabulary of the properties, stated on tiles and positions without  *)
(* the operators of the code.                                               *)

Called(name) == op.name = name

PrevMap == unwrap(prev.map_data)

CurMap == unwrap(map_data)

\* the cell d away from pos
Step(pos, d) ==
    CASE d = "Up" -> [y |-> pos.y - 1, x |-> pos.x]
      [] d = "Down" -> [y |-> pos.y + 1, x |-> pos.x]
      [] d = "Left" -> [y |-> pos.y, x |-> pos.x - 1]
      [] d = "Right" -> [y |-> pos.y, x |-> pos.x + 1]

At(t, pos) == t.y = pos.y /\ t.x = pos.x

IsBox(t) == t.tile_type.kind = "PushBox"

IsSolid(t) ==
    \/ t.tile_type.kind = "Wall1"
    \/ (t.tile_type.kind = "Door" /\ ~t.tile_type.open)

IsLinkedDoor(t) == t.tile_type.kind = "Door" /\ t.tile_type.id # None

IsButtonOf(t, id) == t.tile_type.kind = "Button" /\ t.tile_type.id = id

TilesOf(m) == {m.tile_map[i] : i \in 1..Len(m.tile_map)}

SolidAt(m, pos) == \E t \in TilesOf(m) : At(t, pos) /\ IsSolid(t)

BoxAt(m, pos) == \E t \in TilesOf(m) : At(t, pos) /\ IsBox(t)

\* the button is covered by the player or by a box
Covered(m, p, b) == (p.y = b.y /\ p.x = b.x) \/ BoxAt(m, b)

HasButton(m, id) == \E b \in TilesOf(m) : IsButtonOf(b, id)

AllCovered(m, p, id) == \A b \in TilesOf(m) : IsButtonOf(b, id) => Covered(m, p, b)

\* the level the last update_all recomputed the doors of, as it was before the
\* recompute: the level of the call, or the level a win loaded
WonLevel == Called("update_all") /\ level # prev.level

BeforeRecompute == IF WonLevel THEN unwrap(get(map_list, level)) ELSE PrevMap

Updated == Called("update_all") /\ prev.map_data # None /\ panic = "none"

-----------------------------------------------------------------------------
(* C1 as stated: after an update, a linked door that the level's template   *)
(* has closed is closed whenever its id has a button that neither the       *)
(* player nor a box covers.                                                 *)
C1_DoorRecloses ==
    Updated =>
        \A i \in 1..Len(CurMap.tile_map) :
            LET door == CurMap.tile_map[i]
                id == unwrap(door.tile_type.id)
            IN  ( /\ IsLinkedDoor(door)
                  /\ ~unwrap(get(map_list, level)).tile_map[i].tile_type.open
                  /\ HasButton(CurMap, id)
                  /\ ~AllCovered(CurMap, player, id) )
                => ~door.tile_type.open

(* C1 amended: an update never closes a linked door: a door that is open    *)
(* before an update is open after it, also when a button of its id is       *)
(* uncovered.                                                               *)
C1_DoorStaysOpen ==
    (Updated /\ ~WonLevel) =>
        \A i \in 1..Len(CurMap.tile_map) :
            ( /\ IsLinkedDoor(PrevMap.tile_map[i])
              /\ PrevMap.tile_map[i].tile_type.open )
            => CurMap.tile_map[i] = PrevMap.tile_map[i]

\* an update has run on a door that an earlier update opened and whose id is
\* no longer satisfied
C1_Witness ==
    /\ Updated /\ ~WonLevel
    /\ \E i \in 1..Len(CurMap.tile_map) :
           /\ IsLinkedDoor(PrevMap.tile_map[i])
           /\ PrevMap.tile_map[i].tile_type.open
           /\ ~unwrap(get(map_list, level)).tile_map[i].tile_type.open
           /\ HasButton(CurMap, unwrap(CurMap.tile_map[i].tile_type.id))
           /\ ~AllCovered(CurMap, player, unwrap(CurMap.tile_map[i].tile_type.id))

(* C2: an update opens a closed linked door only if its id has a button and *)
(* every button of the id is covered by the player or a box.                *)
C2_OpensOnlyIfAllCovered ==
    Updated =>
        \A i \in 1..Len(CurMap.tile_map) :
            LET door == CurMap.tile_map[i]
                id == unwrap(door.tile_type.id)
            IN  ( /\ IsLinkedDoor(door)
                  /\ ~BeforeRecompute.tile_map[i].tile_type.open
                  /\ door.tile_type.open )
                => (HasButton(CurMap, id) /\ AllCovered(CurMap, player, id))

\* an update has opened a door whose id has buttons at two positions
C2_Witness ==
    /\ Updated
    /\ \E i \in 1..Len(CurMap.tile_map) :
           /\ IsLinkedDoor(CurMap.tile_map[i])
           /\ ~BeforeRecompute.tile_map[i].tile_type.open
           /\ CurMap.tile_map[i].tile_type.open
           /\ \E b1, b2 \in TilesOf(CurMap) :
                  /\ IsButtonOf(b1, unwrap(CurMap.tile_map[i].tile_type.id))
                  /\ IsButtonOf(b2, unwrap(CurMap.tile_map[i].tile_type.id))
                  /\ <<b1.y, b1.x>> # <<b2.y, b2.x>>

-----------------------------------------------------------------------------
(* The cells of the last player_movement: the one the player faced and the  *)
(* one behind it, in the level as the call found it.                        *)

Moved == Called("player_movement") /\ prev.map_data # None

Target == Step(prev.player, op.dir)

Beyond == Step(Target, op.dir)

SamePlace(p, q) == p.y = q.y /\ p.x = q.x

(* C3: a move towards a cell that holds a wall or a closed door leaves the  *)
(* player where it was, whatever else the cell holds.                       *)
C3_SolidTargetBlocks ==
    (Moved /\ SolidAt(PrevMap, Target)) => SamePlace(player, prev.player)

\* a move was made towards a closed door with a box in the same cell
C3_Witness ==
    /\ Moved
    /\ \E t \in TilesOf(PrevMap) :
           At(t, Target) /\ t.tile_type.kind = "Door" /\ ~t.tile_type.open
    /\ BoxAt(PrevMap, Target)
    /\ SamePlace(player, prev.player)

(* C4: a move towards a cell with a box and no solid tile, the cell behind  *)
(* it free of solid tiles and boxes, puts the player in that cell and each  *)
(* box of it one cell further, and leaves every other tile as it was.       *)
C4_PushMovesBoxAndPlayer ==
    ( /\ Moved
      /\ BoxAt(PrevMap, Target)
      /\ ~SolidAt(PrevMap, Target)
      /\ ~SolidAt(PrevMap, Beyond)
      /\ ~BoxAt(PrevMap, Beyond) )
    => /\ panic = "none"
       /\ SamePlace(player, Target)
       /\ Len(CurMap.tile_map) = Len(PrevMap.tile_map)
       /\ \A i \in 1..Len(PrevMap.tile_map) :
              LET was == PrevMap.tile_map[i]
                  is == CurMap.tile_map[i]
              IN  IF IsBox(was) /\ At(was, Target)
                  THEN /\ At(is, Beyond)
                       /\ is.tile_type = was.tile_type
                  ELSE is = was

\* a box was pushed and can be pushed again in the same direction
C4_Witness ==
    /\ Moved
    /\ BoxAt(PrevMap, Target)
    /\ ~SolidAt(PrevMap, Target)
    /\ ~SolidAt(PrevMap, Beyond)
    /\ ~BoxAt(PrevMap, Beyond)
    /\ SamePlace(player, Target)
    /\ BoxAt(CurMap, Beyond)
    /\ ~SolidAt(CurMap, Step(Beyond, op.dir))
    /\ ~BoxAt(CurMap, Step(Beyond, op.dir))

(* C5: a move towards a cell with a box, the cell behind it holding a solid *)
(* tile or a box, moves neither the player nor any box.                     *)
C5_BlockedPushMovesNothing ==
    ( /\ Moved
      /\ BoxAt(PrevMap, Target)
      /\ (SolidAt(PrevMap, Beyond) \/ BoxAt(PrevMap, Beyond)) )
    => /\ SamePlace(player, prev.player)
       /\ Len(CurMap.tile_map) = Len(PrevMap.tile_map)
       /\ \A i \in 1..Len(PrevMap.tile_map) :
              IsBox(PrevMap.tile_map[i]) => CurMap.tile_map[i] = PrevMap.tile_map[i]

\* a box was pushed towards another box
C5_Witness ==
    /\ Moved
    /\ BoxAt(PrevMap, Target)
    /\ ~SolidAt(PrevMap, Target)
    /\ BoxAt(PrevMap, Beyond)
    /\ ~SolidAt(PrevMap, Beyond)
    /\ SamePlace(player, prev.player)
    /\ map_data = prev.map_data

-----------------------------------------------------------------------------
(* Level indices, read without the arithmetic of the code.                  *)

InRange(v) == v.hi = 0 /\ v.lo < Len(map_list)

LastIndex(v) == v.hi = 0 /\ v.lo = Len(map_list) - 1

Template(v) == map_list[v.lo + 1]

\* w is the index after v
PlusOne(v, w) == v.lo < Half - 1 /\ w.hi = v.hi /\ w.lo = v.lo + 1

AtSpawn(p, m) == p.y = m.player_spawn[1] /\ p.x = m.player_spawn[2]

\* the goal pads under the player when update_all was called
WinPadsUnder ==
    Cardinality({i \in 1..Len(PrevMap.tile_map) :
        /\ At(PrevMap.tile_map[i], prev.player)
        /\ PrevMap.tile_map[i].tile_type.kind = "WinPad"})

\* m is the template but for the open flags of its linked doors
FreshButForDoors(m, template) ==
    /\ m.player_spawn = template.player_spawn
    /\ m.flavor_text = template.flavor_text
    /\ Len(m.tile_map) = Len(template.tile_map)
    /\ \A i \in 1..Len(template.tile_map) :
           \/ m.tile_map[i] = template.tile_map[i]
           \/ /\ IsLinkedDoor(template.tile_map[i])
              /\ m.tile_map[i] = [template.tile_map[i] EXCEPT !.tile_type.open = TRUE]

NothingLoaded == map_data = prev.map_data /\ player = prev.player

(* C6: an update that completes with the player on two or more goal pads    *)
(* of one cell advances the level index by exactly one.                     *)
C6_WinAdvancesOnce ==
    ( /\ Called("update_all")
      /\ prev.map_data # None
      /\ panic = "none"
      /\ WinPadsUnder >= 2 )
    => PlusOne(prev.level, level)

(* C7: an update with the player on exactly one goal pad and a level after  *)
(* the current one advances the index by one, makes the active level the    *)
(* template of the new index but for the doors this update opened, and      *)
(* puts the player on that level's spawn.                                   *)
C7_WinLoadsNextLevel ==
    ( /\ Called("update_all")
      /\ prev.map_data # None
      /\ WinPadsUnder = 1
      /\ InRange(prev.level)
      /\ ~LastIndex(prev.level) )
    => /\ panic = "none"
       /\ PlusOne(prev.level, level)
       /\ map_data # None
       /\ FreshButForDoors(CurMap, Template(level))
       /\ AtSpawn(player, Template(level))
       /\ player.glyph = prev.player.glyph

\* a win has loaded a level whose door the same update opened
C7_Witness ==
    /\ Called("update_all")
    /\ prev.map_data # None
    /\ WinPadsUnder = 1
    /\ InRange(prev.level)
    /\ PlusOne(prev.level, level)
    /\ panic = "none"
    /\ CurMap # Template(level)
    /\ ~AtSpawn(prev.player, Template(level))

(* C8: load_current_level at a valid index makes the active level the       *)
(* template of the index and puts the player on its spawn, whatever the     *)
(* level and the player were before; a second call changes nothing.         *)
C8_LoadReplaces ==
    (Called("load_current_level") /\ InRange(prev.level))
    => /\ panic = "none"
       /\ level = prev.level
       /\ map_data = Some(Template(level))
       /\ AtSpawn(player, Template(level))
       /\ player.glyph = prev.player.glyph
       /\ load_current_level(Ctx) = Ctx

\* a level with a pushed box, an opened door and the player off the spawn
\* has been reloaded
C8_Witness ==
    /\ Called("load_current_level")
    /\ InRange(prev.level)
    /\ prev.map_data # None
    /\ ~AtSpawn(prev.player, Template(level))
    /\ \E i \in 1..Len(PrevMap.tile_map) :
           /\ IsBox(PrevMap.tile_map[i])
           /\ PrevMap.tile_map[i] # Template(level).tile_map[i]
    /\ \E i \in 1..Len(PrevMap.tile_map) :
           /\ IsLinkedDoor(PrevMap.tile_map[i])
           /\ PrevMap.tile_map[i].tile_type.open
           /\ ~Template(level).tile_map[i].tile_type.open
    /\ map_data = Some(Template(level))

(* C9: player_movement with no active level fails in no way and changes     *)
(* nothing.                                                                 *)
C9_MoveWithoutLevelIsNoOp ==
    (Called("player_movement") /\ prev.map_data = None)
    => /\ panic = "none"
       /\ player = prev.player
       /\ map_data = prev.map_data
       /\ level = prev.level

(* C10: increment_level at the last index, a win at the last index and      *)
(* decrement_level at index 0 end the run in a panic with no level loaded:  *)
(* the active level and the player are as before the call.  The increment   *)
(* fails in the todo! of load_current_level; the decrement fails there with *)
(* the index wrapped to 2^32 - 1, or, in a build with overflow checks, in   *)
(* the subtraction.                                                         *)
C10_OutOfRangeIsFatal ==
    /\ (Called("increment_level") /\ LastIndex(prev.level))
       => /\ panic = "todo"
          /\ PlusOne(prev.level, level)
          /\ NothingLoaded
    /\ ( /\ Called("update_all")
         /\ prev.map_data # None
         /\ WinPadsUnder >= 1
         /\ LastIndex(prev.level) )
       => /\ panic = "todo"
          /\ PlusOne(prev.level, level)
          /\ NothingLoaded
    /\ (Called("decrement_level") /\ prev.level = [hi |-> 0, lo |-> 0])
       => /\ \/ panic = "todo" /\ level = [hi |-> Half - 1, lo |-> Half - 1]
             \/ panic = "overflow" /\ level = prev.level
          /\ NothingLoaded

\* decrement_level has wrapped the index of a loaded first level
C10_Witness ==
    /\ Called("decrement_level")
    /\ prev.level = [hi |-> 0, lo |-> 0]
    /\ prev.map_data # None
    /\ panic = "todo"
    /\ level = [hi |-> Half - 1, lo |-> Half - 1]
    /\ NothingLoaded

-----------------------------------------------------------------------------
\* m is a copy of the template in which only boxes have moved and only the
\* open flags of doors have changed
CloneOf(m, template) ==
    /\ m.player_spawn = template.player_spawn
    /\ m.flavor_text = template.flavor_text
    /\ Len(m.tile_map) = Len(template.tile_map)
    /\ \A i \in 1..Len(template.tile_map) :
           LET was == template.tile_map[i]
               is == m.tile_map[i]
           IN  /\ is.tile_type.kind = was.tile_type.kind
               /\ (is.y # was.y \/ is.x # was.x) => was.tile_type.kind = "PushBox"
               /\ is.tile_type # was.tile_type
                  => /\ was.tile_type.kind = "Door"
                     /\ is.tile_type.id = was.tile_type.id

(* C11: while no panic has ended the run and a level is active, the level   *)
(* index is a valid index of the level list and the active level is a copy  *)
(* of the template at that index.                                           *)
C11_ActiveLevelIsOfIndex ==
    (panic = "none" /\ map_data # None)
    => /\ InRange(level)
       /\ CloneOf(CurMap, Template(level))

\* a level after the first is active and is no longer equal to its template
C11_Witness ==
    /\ panic = "none"
    /\ map_data # None
    /\ InRange(level)
    /\ level.lo >= 1
    /\ CurMap # Template(level)
    /\ ~AtSpawn(player, Template(level))

(* C12: a move towards a cell that holds a solid tile changes nothing: the  *)
(* player stays and no tile of the level moves, whatever the order of the   *)
(* tiles of the cell.                                                       *)
C12_SolidTargetAbortsMove ==
    (Moved /\ SolidAt(PrevMap, Target))
    => /\ SamePlace(player, prev.player)
       /\ map_data = prev.map_data

(* C13: an update leaves closed every closed linked door whose id no button *)
(* of the level has.                                                        *)
C13_DoorWithoutButtonStaysClosed ==
    Updated =>
        \A i \in 1..Len(CurMap.tile_map) :
            LET before == BeforeRecompute.tile_map[i]
            IN  ( /\ IsLinkedDoor(before)
                  /\ ~before.tile_type.open
                  /\ ~HasButton(CurMap, unwrap(before.tile_type.id)) )
                => CurMap.tile_map[i] = before

\* an update has opened a door and has left closed a door without buttons
C13_Witness ==
    /\ Updated
    /\ \E i, j \in 1..Len(CurMap.tile_map) :
           /\ IsLinkedDoor(CurMap.tile_map[i])
           /\ ~CurMap.tile_map[i].tile_type.open
           /\ ~HasButton(CurMap, unwrap(CurMap.tile_map[i].tile_type.id))
           /\ IsLinkedDoor(CurMap.tile_map[j])
           /\ ~BeforeRecompute.tile_map[j].tile_type.open
           /\ CurMap.tile_map[j].tile_type.open

(* C14: a player_movement or an update that loads no level keeps the number *)
(* of tiles and the variant of every tile, moves PushBox tiles only, and    *)
(* changes of a tile type only the open flag of a Door.                     *)
C14_OnlyBoxesMoveOnlyDoorsToggle ==
    ( /\ Called("player_movement") \/ Called("update_all")
      /\ prev.map_data # None
      /\ panic = "none"
      /\ ~WonLevel )
    => CloneOf(CurMap, PrevMap)

\* a box has moved in a level that has a button under a box or the player
\* and a door that an update opened
C14_Witness ==
    /\ Moved
    /\ panic = "none"
    /\ \E i \in 1..Len(CurMap.tile_map) :
           /\ IsBox(CurMap.tile_map[i])
           /\ CurMap.tile_map[i] # PrevMap.tile_map[i]
    /\ \E i \in 1..Len(CurMap.tile_map) :
           /\ IsLinkedDoor(CurMap.tile_map[i])
           /\ CurMap.tile_map[i].tile_type.open
           /\ ~Template(level).tile_map[i].tile_type.open

-----------------------------------------------------------------------------
(* C15: no operation changes the level list, and a load that succeeds       *)
(* starts from the entry of the list at the current index, whatever was     *)
(* done to the active level before.                                         *)
C15_TemplatesNeverChange ==
    /\ map_list = prev.map_list
    /\ (Called("load_current_level") /\ panic = "none") =>
           /\ InRange(level)
           /\ map_data = Some(prev.map_list[level.lo + 1])

\* a reload of a level whose active copy had a box moved and a door opened
C15_Witness ==
    /\ Called("load_current_level")
    /\ panic = "none"
    /\ prev.map_data # None
    /\ map_data = Some(Template(level))
    /\ \E i, j \in 1..Len(PrevMap.tile_map) :
           /\ Len(PrevMap.tile_map) = Len(CurMap.tile_map)
           /\ IsBox(PrevMap.tile_map[i])
           /\ PrevMap.tile_map[i] # CurMap.tile_map[i]
           /\ IsLinkedDoor(PrevMap.tile_map[j])
           /\ PrevMap.tile_map[j].tile_type.open
           /\ ~CurMap.tile_map[j].tile_type.open

-----------------------------------------------------------------------------
IsUnlinkedDoor(t) == t.tile_type.kind = "Door" /\ t.tile_type.id = None

(* C16: after an update, every door without an id is as it was before the   *)
(* recompute, open flag included.                                           *)
C16_UnlinkedDoorUntouched ==
    Updated =>
        \A i \in 1..Len(CurMap.tile_map) :
            IsUnlinkedDoor(BeforeRecompute.tile_map[i]) =>
                CurMap.tile_map[i] = BeforeRecompute.tile_map[i]

\* an update opened a linked door of a level that holds an open and a closed
\* door without an id
C16_Witness ==
    /\ Updated
    /\ \E i, j, k \in 1..Len(CurMap.tile_map) :
           /\ IsUnlinkedDoor(CurMap.tile_map[i]) /\ CurMap.tile_map[i].tile_type.open
           /\ IsUnlinkedDoor(CurMap.tile_map[j]) /\ ~CurMap.tile_map[j].tile_type.open
           /\ IsLinkedDoor(CurMap.tile_map[k])
           /\ ~BeforeRecompute.tile_map[k].tile_type.open
           /\ CurMap.tile_map[k].tile_type.open

-----------------------------------------------------------------------------
\* the indices of the tiles of the level under the player
Under(m, p) == {i \in 1..Len(m.tile_map) : At(m.tile_map[i], p)}

\* how many of the returned events are ev
Count(ev) == Cardinality({k \in 1..Len(events) : events[k] = ev})

(* C17: collect_events leaves player, active level, level list and index    *)
(* as they were and, with a level loaded, returns one event per tile under  *)
(* the player: a Win per WinPad, a PressButton per Button, a Nothing per    *)
(* tile of any other variant.                                               *)
C17_CollectEventsIsPureRead ==
    Called("collect_events") =>
        /\ player = prev.player
        /\ map_data = prev.map_data
        /\ level = prev.level
        /\ map_list = prev.map_list
        /\ prev.map_data # None =>
               LET under == Under(CurMap, player)
                   kind(i) == CurMap.tile_map[i].tile_type.kind
               IN  /\ panic = "none"
                   /\ Len(events) = Cardinality(under)
                   /\ Count("Win") = Cardinality({i \in under : kind(i) = "WinPad"})
                   /\ Count("PressButton") = Cardinality({i \in under : kind(i) = "Button"})
                   /\ Count("Nothing") =
                          Cardinality({i \in under : kind(i) \notin {"WinPad", "Button"}})

\* collect_events was called on a cell with a button and two other tiles
C17_Witness ==
    /\ Called("collect_events")
    /\ prev.map_data # None
    /\ Count("PressButton") >= 1
    /\ Count("Nothing") >= 2

-----------------------------------------------------------------------------
(* The shipped game, as main runs it.  op.name is where main stands: "new"  *)
(* before the load, "getch" waiting for a key, "update_all" between the     *)
(* key's call and update_all, "quit" after the loop.  prev and events stay  *)
(* as Init leaves them.                                                     *)

Keys == Direction \cup {"r", "q", "other"}

\* the arms of the match on the key that call something and go on
key_handler(c, k) ==
    IF k \in Direction THEN player_movement(c, k)
    ELSE IF k = "r" THEN load_current_level(c)
    ELSE c

InitShipped ==
    /\ player = [y |-> 5, x |-> 5, glyph |-> "X"]
    /\ map_data = None
    /\ map_list = get_maps
    /\ level = u32(0)
    /\ panic = "none"
    /\ op = Call("new", "None")
    /\ prev = [player |-> [y |-> 5, x |-> 5, glyph |-> "X"], map_data |-> None,
               map_list |-> get_maps, level |-> u32(0), panic |-> "none"]
    /\ events = <<>>

Continues(c, position) ==
    /\ player' = c.player
    /\ map_data' = c.map_data
    /\ map_list' = c.map_list
    /\ level' = c.level
    /\ panic' = c.panic
    /\ op' = Call(position, "None")
    /\ UNCHANGED <<prev, events>>

\* game.load_current_level() before the loop
MainLoad ==
    /\ panic = "none"
    /\ op.name = "new"
    /\ Continues(load_current_level(Ctx), "getch")

\* a key is read: q leaves the loop, any other key runs its arm
MainKey ==
    /\ panic = "none"
    /\ op.name = "getch"
    /\ \E k \in Keys :
           IF k = "q" THEN Continues(Ctx, "quit")
           ELSE Continues(key_handler(Ctx, k), "update_all")

\* game.update_all() at the end of the pass
MainUpdate ==
    /\ panic = "none"
    /\ op.name = "update_all"
    /\ \E overflow_checks \in BOOLEAN :
           Continues(update_all(Ctx, overflow_checks), "getch")

NextShipped ==
    \/ MainLoad
    \/ MainKey
    \/ MainUpdate

SpecShipped == InitShipped /\ [][NextShipped]_vars

\* the indices of the tiles that share the cell of tile i
Sharing(m, i) ==
    {j \in 1..Len(m.tile_map) : j # i /\ m.tile_map[j].y = m.tile_map[i].y
                                      /\ m.tile_map[j].x = m.tile_map[i].x}

(* C18: in the shipped levels, whatever keys were played, after every move, *)
(* reload and update no wall, closed door or box is in the player's cell,   *)
(* and no box shares its cell with another box, a wall or a closed door.    *)
C18_NoOverlap ==
    map_data # None =>
        /\ \A i \in Under(CurMap, player) :
               ~IsSolid(CurMap.tile_map[i]) /\ ~IsBox(CurMap.tile_map[i])
        /\ \A i \in 1..Len(CurMap.tile_map) :
               IsBox(CurMap.tile_map[i]) =>
                   \A j \in Sharing(CurMap, i) :
                       ~IsSolid(CurMap.tile_map[j]) /\ ~IsBox(CurMap.tile_map[j])

\* level 3 with the box pushed through the opened door and the player in the
\* door's cell behind it
C18_Witness ==
    /\ panic = "none"
    /\ level = u32(2)
    /\ map_data # None
    /\ \E d \in Under(CurMap, player) :
           IsLinkedDoor(CurMap.tile_map[d]) /\ CurMap.tile_map[d].tile_type.open
    /\ \E i \in 1..Len(CurMap.tile_map) :
           /\ IsBox(CurMap.tile_map[i])
           /\ CurMap.tile_map[i].y = player.y
           /\ CurMap.tile_map[i].x = player.x + 1

-----------------------------------------------------------------------------
(* One run of main on the keys of Script.  Start is main up to its loop;    *)
(* Turn is one pass of the loop on the next key: the match on the key,      *)
(* then update_all, or the end of the loop on q.  op.step counts the keys   *)
(* read.                                                                    *)

\* one pass of the loop; on q the loop is left with nothing called
main_turn(c, k, overflow_checks) ==
    IF k = "q" THEN c
    ELSE LET c1 == key_handler(c, k)
         IN  IF c1.panic # "none" THEN c1 ELSE update_all(c1, overflow_checks)

Rep(k, n) == [i \in 1..n |-> k]

\* the keys of a walk through level 1 and level 2, then in level 3: the box
\* is pushed along row 3 to column 24 and up onto the button at (2,24), the
\* player steps on the button at (4,24), then walks through (3,28) to (3,35)
Script ==
    concat(<< Rep("Right", 23), Rep("Down", 10),
              Rep("Up", 4), Rep("Right", 5), Rep("Down", 2), Rep("Right", 20),
              Rep("Down", 2), Rep("Right", 2), Rep("Left", 2), Rep("Up", 7),
              Rep("Left", 29),
              Rep("Right", 20), <<"Down", "Right", "Up", "Down", "Up">>,
              Rep("Right", 11) >>)

InitWin ==
    /\ player = [y |-> 5, x |-> 5, glyph |-> "X"]
    /\ map_data = None
    /\ map_list = get_maps
    /\ level = u32(0)
    /\ panic = "none"
    /\ op = [name |-> "new", dir |-> "None", step |-> 0]
    /\ prev = [player |-> [y |-> 5, x |-> 5, glyph |-> "X"], map_data |-> None,
               map_list |-> get_maps, level |-> u32(0), panic |-> "none"]
    /\ events = <<>>

\* main has not returned or panicked and its next step is defined
Running ==
    /\ panic = "none"
    /\ op.name # "quit"
    /\ (op.name = "new" \/ op.step < Len(Script))

\* what the next step of main is: the load before the loop, or the next key
NextOp ==
    IF op.name = "new"
    THEN [name |-> "load_current_level", dir |-> "None", step |-> 0]
    ELSE LET k == Script[op.step + 1]
         IN  [name |-> IF k = "q" THEN "quit" ELSE "turn", dir |-> k,
              step |-> op.step + 1]

Start ==
    /\ Running
    /\ op.name = "new"
    /\ \E c \in {load_current_level(Ctx)} : Becomes(c, NextOp)
    /\ events' = <<>>

Turn ==
    /\ Running
    /\ op.name # "new"
    /\ \E overflow_checks \in BOOLEAN :
           \E c \in {main_turn(Ctx, NextOp.dir, overflow_checks)} : Becomes(c, NextOp)
    /\ events' = <<>>

NextWin ==
    \/ Start
    \/ Turn

\* main takes its next step
Proceeds == Running /\ op' = NextOp

(* main runs without waiting for anything but the key, so while keys remain *)
(* its next step is taken.                                                  *)
SpecWin == InitWin /\ [][NextWin]_vars /\ WF_op(Proceeds)

\* level 3 before any door of it was opened
LevelThree == get_maps[3]

InLevelThree == level = u32(2) /\ map_data # None /\ CloneOf(CurMap, LevelThree)

\* the player is in the door's cell of level 3 and a button is uncovered
ThroughDoor ==
    /\ InLevelThree
    /\ panic = "none"
    /\ player.y = 3 /\ player.x = 28
    /\ \E d \in Under(CurMap, player) : CurMap.tile_map[d].tile_type = Door(Some(0), TRUE)
    /\ ~AllCovered(CurMap, player, 0)

\* the player is on the WinPad of level 3
OnWinPad ==
    /\ map_data # None
    /\ CloneOf(CurMap, LevelThree)
    /\ player.y = 3 /\ player.x = 35
    /\ \E w \in Under(CurMap, player) : CurMap.tile_map[w].tile_type = WinPad

\* level 3 as load_current_level leaves it
Spawned ==
    /\ InLevelThree
    /\ panic = "none"
    /\ AtSpawn(player, LevelThree)
    /\ CurMap = LevelThree

\* the turn before, both buttons of level 3 were covered, by player and box
LeftButton ==
    /\ InLevelThree
    /\ prev.map_data # None
    /\ prev.level = u32(2)
    /\ AllCovered(PrevMap, prev.player, 0)
    /\ ~AllCovered(CurMap, player, 0)

(* C19: the run of Script comes to the spawn state of level 3, later leaves *)
(* the buttons it had covered, later has the player in the door's cell      *)
(* (3,28) with a button uncovered, and later on the WinPad at (3,35).       *)
C19_LevelThreeWinnable ==
    <>(Spawned /\ <>(LeftButton /\ <>(ThroughDoor /\ <>OnWinPad)))

\* the last key of Script was read and the player stands on the WinPad
C19_Witness ==
    /\ op.name = "turn"
    /\ op.step = Len(Script)
    /\ OnWinPad
    /\ \E d \in 1..Len(CurMap.tile_map) : CurMap.tile_map[d].tile_type = Door(Some(0), TRUE)

=============================================================================
